---- MODULE Spec2Model ----
(***************************************************************************)
(* Model of django/core/paginator.py: Paginator, Page and                  *)
(* PageURLGenerator.  Every call is one action; the value it returns (or   *)
(* the exception it raises) is recorded in ret, the call in op and arg.    *)
(***************************************************************************)
EXTENDS Integers, Sequences, FiniteSets, TLC

\* ---- bounds of the explored inputs -------------------------------------
MaxCount == 5
MaxPerPage == 3
MaxOrphans == 2
MaxPadding == 2
MaxCap == 3
MaxRangeLen == 2

VARIABLES
    object_list,              \* Paginator.object_list: the collection
    per_page,                 \* Paginator.per_page
    orphans,                  \* Paginator.orphans
    allow_empty_first_page,   \* Paginator.allow_empty_first_page
    _count,                   \* Paginator._count (None until computed)
    _num_pages,               \* Paginator._num_pages (None until computed)
    sizeQueries,              \* number of object_list.count()/len() calls made
    page,                     \* the Page most recently returned by page()
    route_base,               \* reverse() resolves the route without a page argument
    route_kwarg,              \* reverse() resolves the route with the page keyword argument
    request_GET,              \* the query parameters handed to PageURLGenerator
    generator,                \* the PageURLGenerator instance
    op, arg, ret              \* last call, its arguments, its outcome

vars == <<object_list, per_page, orphans, allow_empty_first_page, _count,
          _num_pages, sizeQueries, page, route_base, route_kwarg,
          request_GET, generator, op, arg, ret>>

paginatorVars == <<object_list, per_page, orphans, allow_empty_first_page,
                   _count, _num_pages, sizeQueries, page>>
urlVars == <<route_base, route_kwarg, request_GET, generator>>

\* ---- values -------------------------------------------------------------
\* Python's None where an integer is expected (counts and page numbers are >= 0).
None == -1

Min(a, b) == IF a < b THEN a ELSE b
Max(a, b) == IF a > b THEN a ELSE b

\* range(a, b + 1) as a list
Range(a, b) == [i \in 1..(IF b >= a THEN b - a + 1 ELSE 0) |-> a + i - 1]

\* s[bottom:top] for 0 <= bottom, 0 <= top (Python clamps both to len(s))
Slice(s, bottom, top) == SubSeq(s, Min(bottom, Len(s)) + 1, Min(top, Len(s)))

\* a call's outcome: a returned value or a raised exception
Ok(v) == [exc |-> "none", val |-> v]
Raise(e) == [exc |-> e, val |-> None]
NoRet == Ok(None)

NoArg == [coercible |-> TRUE, number |-> 0, padding |-> 0, cap |-> 0, range |-> <<>>]
NumberArg(c, n) == [NoArg EXCEPT !.coercible = c, !.number = n]

NoPage == [object_list |-> <<>>, number |-> 0]

\* the collection of n items; item i is 10 + i, so items differ from positions
Items(n) == [i \in 1..n |-> 10 + i]

\* ---- Paginator ----------------------------------------------------------
\* "if not self._count" in place of "if self._count is None"
count_cached_falsy == _count # None /\ _count # 0

\* "if self._count is None" negated
count_cached == _count # None

\* object_list.count(), or len(object_list) when that is not available
compute_count == Len(object_list)

\* the value of the count property
count == IF count_cached THEN _count ELSE compute_count

num_pages_cached == _num_pages # None

\* int(ceil(hits / float(per_page)))
CeilDiv(hits, pp) == IF hits % pp = 0 THEN hits \div pp ELSE (hits \div pp) + 1

compute_num_pages_nomax ==
    IF count = 0 /\ ~allow_empty_first_page
    THEN 0
    ELSE CeilDiv(count - orphans, per_page)

compute_num_pages_noorphans ==
    IF count = 0 /\ ~allow_empty_first_page
    THEN 0
    ELSE CeilDiv(Max(1, count), per_page)

compute_num_pages ==
    IF count = 0 /\ ~allow_empty_first_page
    THEN 0
    ELSE CeilDiv(Max(1, count - orphans), per_page)

\* the value of the num_pages property
num_pages == IF num_pages_cached THEN _num_pages ELSE compute_num_pages

\* effect of the properties on the cache
TouchNone == UNCHANGED <<_count, _num_pages, sizeQueries>>

TouchCount ==
    /\ _count' = count
    /\ sizeQueries' = IF count_cached THEN sizeQueries ELSE sizeQueries + 1
    /\ UNCHANGED _num_pages

TouchNumPages ==
    /\ _num_pages' = num_pages
    /\ IF num_pages_cached
       THEN UNCHANGED <<_count, sizeQueries>>
       ELSE /\ _count' = count
            /\ sizeQueries' = IF count_cached THEN sizeQueries ELSE sizeQueries + 1

TouchBoth ==
    /\ _num_pages' = num_pages
    /\ _count' = count
    /\ sizeQueries' = IF count_cached THEN sizeQueries ELSE sizeQueries + 1

validate_number_zero(a) ==
    IF ~a.coercible THEN Raise("PageNotAnInteger")
    ELSE IF a.number < 0 THEN Raise("EmptyPage")
    ELSE IF a.number > num_pages
         THEN IF a.number = 1 /\ allow_empty_first_page
              THEN Ok(a.number)
              ELSE Raise("EmptyPage")
         ELSE Ok(a.number)

validate_number(a) ==
    IF ~a.coercible THEN Raise("PageNotAnInteger")
    ELSE IF a.number < 1 THEN Raise("EmptyPage")
    ELSE IF a.number > num_pages
         THEN IF a.number = 1 /\ allow_empty_first_page
              THEN Ok(a.number)
              ELSE Raise("EmptyPage")
         ELSE Ok(a.number)

\* validate_number reads num_pages only once the number is known to be >= 1
TouchValidate(a) ==
    IF a.coercible /\ a.number >= 1 THEN TouchNumPages ELSE TouchNone

page_bottom(number) == (number - 1) * per_page

page_top_strict(number) ==
    LET top == page_bottom(number) + per_page
    IN  IF top + orphans > count THEN count ELSE top

page_top(number) ==
    LET top == page_bottom(number) + per_page
    IN  IF top + orphans >= count THEN count ELSE top

\* the Page built by page(number) for a number that validate_number accepts
new_page(number) ==
    [object_list |-> Slice(object_list, page_bottom(number), page_top(number)),
     number |-> number]

\* ---- Page ---------------------------------------------------------------
has_next(p) == p.number < num_pages
has_previous(p) == p.number > 1
has_other_pages(p) == has_previous(p) \/ has_next(p)

start_index(p) ==
    IF count = 0 THEN 0 ELSE (per_page * (p.number - 1)) + 1

end_index_nolast(p) == p.number * per_page

end_index(p) ==
    IF p.number = num_pages THEN count ELSE p.number * per_page

padded_page_range_nocap(p, padding, cap) ==
    LET head_end == Min(cap, num_pages)
        body_start == Max(head_end + 1, p.number - padding)
        body_end == Min(p.number + padding, num_pages)
        tail_start == Max(body_end, num_pages - cap) + 1
        head == Range(1, head_end)
                    \o (IF body_start > head_end + 1 THEN <<None>> ELSE <<>>)
        body == Range(body_start, body_end)
        tail == IF body_end < num_pages
                THEN (IF tail_start > body_end + 1 THEN <<None>> ELSE <<>>)
                         \o Range(tail_start, num_pages)
                ELSE <<>>
    IN  head \o body \o tail

padded_page_range(p, padding, cap) ==
    LET head_end == Min(cap, num_pages)
        body_start == Max(head_end + 1, p.number - padding)
        body_end == Min(p.number + padding, num_pages)
        tail_start == Max(body_end, num_pages - cap) + 1
        head == IF cap # 0
                THEN Range(1, head_end)
                         \o (IF body_start > head_end + 1 THEN <<None>> ELSE <<>>)
                ELSE <<>>
        body == Range(body_start, body_end)
        tail == IF cap # 0 /\ body_end < num_pages
                THEN (IF tail_start > body_end + 1 THEN <<None>> ELSE <<>>)
                         \o Range(tail_start, num_pages)
                ELSE <<>>
    IN  head \o body \o tail

\* ---- PageURLGenerator ---------------------------------------------------
\* A URL is a list of tokens [k, v]; the unset URL (None) is the empty list,
\* which the code only ever tests for truth.
NoURL == <<>>
Tok(k, v) == [k |-> k, v |-> v]

page_arg == "page"
QueryKeys == <<"q", "page">>

\* reverse(url_name, args, kwargs, current_app); kwargs is the set of keyword
\* names and number the value of the page keyword
reverse(kwargs, number) ==
    IF page_arg \in kwargs
    THEN IF route_kwarg THEN Ok(<<Tok("/list/page/", number)>>)
                        ELSE Raise("NoReverseMatch")
    ELSE IF route_base THEN Ok(<<Tok("/list/", 0)>>)
                       ELSE Raise("NoReverseMatch")

\* QueryDict: a function from a set of keys to values
QueryDicts ==
    UNION {[ks -> 1..3] : ks \in SUBSET {"q", "page"}}

del(qd, k) == [x \in (DOMAIN qd) \ {k} |-> qd[x]]
set(qd, k, v) == [x \in (DOMAIN qd) \cup {k} |-> IF x = k THEN v ELSE qd[x]]

RECURSIVE urlencode_from(_, _)
urlencode_from(qd, i) ==
    IF i > Len(QueryKeys) THEN <<>>
    ELSE (IF QueryKeys[i] \in DOMAIN qd
          THEN <<Tok(QueryKeys[i], qd[QueryKeys[i]])>>
          ELSE <<>>) \o urlencode_from(qd, i + 1)

urlencode(qd) == urlencode_from(qd, 1)

build_full_url(url, querydict) ==
    IF DOMAIN querydict = {} THEN url
    ELSE url \o <<Tok("?", 0)>> \o urlencode(querydict)

NoGenerator ==
    [constructed |-> FALSE, base_url |-> NoURL, querydict |-> <<>>,
     get_url |-> "none"]

\* "reverse_kwargs[self.page_arg: number]" subscripts a dict with a slice,
\* which raises TypeError before reverse() is called.
get_url_by_kwarg(g, number) ==
    IF number = 1 /\ g.base_url # NoURL
    THEN Ok(build_full_url(g.base_url, g.querydict))
    ELSE Raise("TypeError")

get_url_by_querydict(g, number) ==
    LET querydict == IF number # 1 THEN set(g.querydict, page_arg, number)
                                   ELSE g.querydict
    IN  Ok(build_full_url(g.base_url, querydict))

get_url(g, number) ==
    IF g.get_url = "get_url_by_querydict"
    THEN get_url_by_querydict(g, number)
    ELSE get_url_by_kwarg(g, number)

\* PageURLGenerator(querydict, url_name): the outcome and the new instance
construct(querydict) ==
    LET rev == reverse({}, 0)
        base_url == IF rev.exc = "NoReverseMatch" THEN NoURL ELSE rev.val
        g0 == [constructed |-> FALSE, base_url |-> base_url,
               querydict |-> querydict, get_url |-> "none"]
        probe == get_url_by_kwarg(g0, 1)
    IN  IF probe.exc = "NoReverseMatch"
        THEN IF base_url = NoURL
             THEN [out |-> Raise("ValueError"), gen |-> NoGenerator]
             ELSE [out |-> NoRet,
                   gen |-> [g0 EXCEPT !.constructed = TRUE,
                                      !.get_url = "get_url_by_querydict",
                                      !.querydict = del(querydict, page_arg)]]
        ELSE IF probe.exc # "none"
        THEN [out |-> Raise(probe.exc), gen |-> NoGenerator]
        ELSE [out |-> NoRet,
              gen |-> [g0 EXCEPT !.constructed = TRUE,
                                 !.get_url = "get_url_by_kwarg"]]

\* "if number:" - None and 0 are false
Truthy(number) == number # None /\ number # 0

UrlPair(number, url) == [number |-> number, url |-> url]

\* self.build_url does not exist: the first true number raises AttributeError
range_urls(g, page_range) ==
    IF \E i \in 1..Len(page_range) : Truthy(page_range[i])
    THEN Raise("AttributeError")
    ELSE Ok([i \in 1..Len(page_range) |-> UrlPair(page_range[i], NoURL)])

\* ---- inputs -------------------------------------------------------------
\* (count, per_page, orphans) of the paginators explored; the last two are
\* the orphan example (23 items, 10 per page, 5 orphans) and a 7-page list
Configs ==
    ((0..MaxCount) \X (1..MaxPerPage) \X (0..MaxOrphans))
        \cup {<<23, 10, 5>>, <<7, 1, 0>>}

\* page numbers handed to validate_number / page, and one value int() rejects
NumberArgs ==
    {NumberArg(TRUE, n) : n \in -1..(MaxCount + 2)} \cup {NumberArg(FALSE, 0)}

\* indices handed to Page.__getitem__, and one that is neither int nor slice
IndexArgs ==
    {NumberArg(TRUE, n) : n \in -1..1} \cup {NumberArg(FALSE, 0)}

PageRanges ==
    UNION {[1..n -> {None, 1, 2}] : n \in 0..MaxRangeLen}

\* ---- initial states -----------------------------------------------------
InitPaginator ==
    /\ \E cfg \in Configs :
          /\ object_list = Items(cfg[1])
          /\ per_page = cfg[2]
          /\ orphans = cfg[3]
    /\ allow_empty_first_page \in BOOLEAN
    /\ _count = None
    /\ _num_pages = None
    /\ sizeQueries = 0
    /\ page = NoPage

Init ==
    /\ InitPaginator
    /\ route_base = TRUE
    /\ route_kwarg = FALSE
    /\ request_GET = <<>>
    /\ generator = NoGenerator
    /\ op = "init"
    /\ arg = NoArg
    /\ ret = NoRet

\* ---- Paginator actions --------------------------------------------------
Count ==
    /\ op' = "count"
    /\ arg' = NoArg
    /\ ret' = Ok(count)
    /\ TouchCount
    /\ UNCHANGED <<object_list, per_page, orphans, allow_empty_first_page, page>>
    /\ UNCHANGED urlVars

NumPages ==
    /\ op' = "num_pages"
    /\ arg' = NoArg
    /\ ret' = Ok(num_pages)
    /\ TouchNumPages
    /\ UNCHANGED <<object_list, per_page, orphans, allow_empty_first_page, page>>
    /\ UNCHANGED urlVars

PageRange ==
    /\ op' = "page_range"
    /\ arg' = NoArg
    /\ ret' = Ok(Range(1, num_pages))
    /\ TouchNumPages
    /\ UNCHANGED <<object_list, per_page, orphans, allow_empty_first_page, page>>
    /\ UNCHANGED urlVars

ValidateNumber ==
    \E a \in NumberArgs :
        /\ op' = "validate_number"
        /\ arg' = a
        /\ ret' = validate_number(a)
        /\ TouchValidate(a)
        /\ UNCHANGED <<object_list, per_page, orphans, allow_empty_first_page, page>>
        /\ UNCHANGED urlVars

GetPage ==
    \E a \in NumberArgs :
        LET v == validate_number(a)
        IN  /\ op' = "page"
            /\ arg' = a
            /\ IF v.exc = "none"
               THEN /\ page' = new_page(v.val)
                    /\ ret' = Ok(v.val)
                    /\ TouchBoth
               ELSE /\ page' = page
                    /\ ret' = v
                    /\ TouchValidate(a)
            /\ UNCHANGED <<object_list, per_page, orphans, allow_empty_first_page>>
            /\ UNCHANGED urlVars

\* ---- Page actions (on the Page last returned) ---------------------------
PageCall(name, a, result, touch) ==
    /\ page # NoPage
    /\ op' = name
    /\ arg' = a
    /\ ret' = result
    /\ touch
    /\ UNCHANGED <<object_list, per_page, orphans, allow_empty_first_page, page>>
    /\ UNCHANGED urlVars

PageLen == PageCall("__len__", NoArg, Ok(Len(page.object_list)), TouchNone)

\* list(self.object_list)[index] for an integer index
getitem(p, a) ==
    LET n == Len(p.object_list)
    IN  IF ~a.coercible THEN Raise("TypeError")
        ELSE IF a.number >= n \/ a.number < 0 - n THEN Raise("IndexError")
        ELSE IF a.number >= 0 THEN Ok(p.object_list[a.number + 1])
        ELSE Ok(p.object_list[n + a.number + 1])

PageGetItem ==
    \E a \in IndexArgs : PageCall("__getitem__", a, getitem(page, a), TouchNone)

HasNext == PageCall("has_next", NoArg, Ok(has_next(page)), TouchNumPages)

HasPrevious == PageCall("has_previous", NoArg, Ok(has_previous(page)), TouchNone)

\* "or" does not evaluate has_next() when has_previous() is true
HasOtherPages ==
    PageCall("has_other_pages", NoArg, Ok(has_other_pages(page)),
             IF has_previous(page) THEN TouchNone ELSE TouchNumPages)

NextPageNumber ==
    LET a == NumberArg(TRUE, page.number + 1)
    IN  PageCall("next_page_number", a, validate_number(a), TouchValidate(a))

PreviousPageNumber ==
    LET a == NumberArg(TRUE, page.number - 1)
    IN  PageCall("previous_page_number", a, validate_number(a), TouchValidate(a))

StartIndex == PageCall("start_index", NoArg, Ok(start_index(page)), TouchCount)

EndIndex ==
    PageCall("end_index", NoArg, Ok(end_index(page)),
             IF page.number = num_pages THEN TouchBoth ELSE TouchNumPages)

PaddedPageRange ==
    \E padding \in 0..MaxPadding, cap \in 0..MaxCap :
        PageCall("padded_page_range",
                 [NoArg EXCEPT !.padding = padding, !.cap = cap],
                 Ok(padded_page_range(page, padding, cap)), TouchNumPages)

Next ==
    \/ Count
    \/ NumPages
    \/ PageRange
    \/ ValidateNumber
    \/ GetPage
    \/ PageLen
    \/ PageGetItem
    \/ HasNext
    \/ HasPrevious
    \/ HasOtherPages
    \/ NextPageNumber
    \/ PreviousPageNumber
    \/ StartIndex
    \/ EndIndex
    \/ PaddedPageRange

Spec == Init /\ [][Next]_vars

\* ---- the collection changes size under a live Paginator -----------------
Mutate ==
    /\ \E n \in {Len(object_list) - 1, Len(object_list) + 1} :
          /\ n >= 0
          /\ n <= MaxCount
          /\ object_list' = Items(n)
    /\ op' = "mutate"
    /\ arg' = NoArg
    /\ ret' = NoRet
    /\ UNCHANGED <<per_page, orphans, allow_empty_first_page, _count,
                   _num_pages, sizeQueries, page>>
    /\ UNCHANGED urlVars

NextMut ==
    \/ Next
    \/ Mutate

SpecMut == Init /\ [][NextMut]_vars

\* ---- PageURLGenerator actions -------------------------------------------
InitURL ==
    /\ object_list = Items(0)
    /\ per_page = 1
    /\ orphans = 0
    /\ allow_empty_first_page = TRUE
    /\ _count = None
    /\ _num_pages = None
    /\ sizeQueries = 0
    /\ page = NoPage
    /\ route_base \in BOOLEAN
    /\ route_kwarg \in BOOLEAN
    /\ request_GET \in QueryDicts
    /\ generator = NoGenerator
    /\ op = "init"
    /\ arg = NoArg
    /\ ret = NoRet

Construct ==
    LET c == construct(request_GET)
    IN  /\ ~generator.constructed
        /\ op' = "construct"
        /\ arg' = NoArg
        /\ ret' = c.out
        /\ generator' = c.gen
        /\ UNCHANGED <<route_base, route_kwarg, request_GET>>
        /\ UNCHANGED paginatorVars

GetUrl ==
    \E number \in 1..3 :
        /\ generator.constructed
        /\ op' = "get_url"
        /\ arg' = NumberArg(TRUE, number)
        /\ ret' = get_url(generator, number)
        /\ UNCHANGED urlVars
        /\ UNCHANGED paginatorVars

RangeUrls ==
    \E r \in PageRanges :
        /\ generator.constructed
        /\ op' = "range_urls"
        /\ arg' = [NoArg EXCEPT !.range = r]
        /\ ret' = range_urls(generator, r)
        /\ UNCHANGED urlVars
        /\ UNCHANGED paginatorVars

NextURL ==
    \/ Construct
    \/ GetUrl
    \/ RangeUrls

SpecURL == InitURL /\ [][NextURL]_vars

\* ======================= properties ======================================
ExpectedHits == Max(1, Len(object_list) - orphans)
NoPagesAllowed == Len(object_list) = 0 /\ ~allow_empty_first_page

\* C1: num_pages is 0 exactly when count == 0 and allow_empty_first_page is
\* false; otherwise it is ceil(max(1, count - orphans) / per_page), the least
\* k with k * per_page >= max(1, count - orphans), and so at least 1.
C1_NumPages ==
    /\ _num_pages # None =>
          /\ (_num_pages = 0 <=> NoPagesAllowed)
          /\ ~NoPagesAllowed =>
                /\ _num_pages >= 1
                /\ _num_pages * per_page >= ExpectedHits
                /\ (_num_pages - 1) * per_page < ExpectedHits
    /\ op = "num_pages" => ret = Ok(_num_pages)

\* the max(1, ...) floor decides: fewer items than orphans, still one page
C1_Witness ==
    /\ op = "num_pages"
    /\ Len(object_list) >= 1
    /\ Len(object_list) <= orphans
    /\ ret = Ok(1)

\* C2: validate_number(n) returns n when 1 <= n <= num_pages or when n == 1
\* and allow_empty_first_page; every other integer n fails with EmptyPage.
C2_ValidateNumber ==
    (op = "validate_number" /\ arg.coercible) =>
        IF \/ (1 <= arg.number /\ arg.number <= num_pages)
           \/ (arg.number = 1 /\ allow_empty_first_page)
        THEN ret = [exc |-> "none", val |-> arg.number]
        ELSE ret.exc = "EmptyPage"

\* page 1 of an empty collection is accepted when the empty first page is allowed
C2_Witness ==
    /\ op = "validate_number"
    /\ arg.number = 1
    /\ Len(object_list) = 0
    /\ allow_empty_first_page
    /\ ret = Ok(1)

\* C3: page(n) holds exactly collection[bottom:top], bottom = (n-1)*per_page,
\* top = bottom + per_page clamped to count whenever top + orphans >= count.
C3_PageSlice ==
    (op = "page" /\ ret.exc = "none") =>
        LET n == arg.number
            cnt == Len(object_list)
            bottom == (n - 1) * per_page
            top == IF bottom + per_page + orphans >= cnt
                   THEN cnt ELSE bottom + per_page
        IN  /\ page.number = n
            /\ Len(page.object_list) = top - bottom
            /\ \A i \in 1..Len(page.object_list) :
                  page.object_list[i] = object_list[bottom + i]

\* 23 items, 10 per page, 5 orphans: 2 pages, page 2 holds positions 10..22
C3_Witness ==
    /\ op = "page"
    /\ Len(object_list) = 23 /\ per_page = 10 /\ orphans = 5
    /\ _num_pages = 2
    /\ page.number = 2
    /\ Len(page.object_list) = 13
    /\ page.object_list[1] = object_list[11]
    /\ page.object_list[13] = object_list[23]

\* C4: with count >= 1, for every n in 1..num_pages start_index and end_index
\* of page(n) lie in [1, count], start_index <= end_index, and for n <
\* num_pages end_index of page(n) + 1 is start_index of page(n + 1).
C4_Indexes ==
    (Len(object_list) >= 1 /\ num_pages_cached) =>
        /\ \A n \in 1..num_pages :
              LET s == start_index(new_page(n))
                  e == end_index(new_page(n))
              IN  /\ s \in 1..Len(object_list)
                  /\ e \in 1..Len(object_list)
                  /\ s <= e
                  /\ n < num_pages => e + 1 = start_index(new_page(n + 1))
        /\ op = "start_index" => ret.val \in 1..Len(object_list)
        /\ op = "end_index" =>
              /\ ret.val \in 1..Len(object_list)
              /\ ret.val >= per_page * (page.number - 1) + 1

\* end_index of a last page that absorbed orphans
C4_Witness ==
    /\ op = "end_index"
    /\ page.number = num_pages
    /\ num_pages > 1
    /\ ret.val = Len(object_list)
    /\ ret.val > page.number * per_page

IsNumber(x) == x # None

\* C5: padded_page_range(padding, cap) repeats no page number, its page
\* numbers are strictly increasing, None is never first or last, and every
\* None stands between two page numbers a and b with b > a + 1.
C5_PaddedRangeWellFormed ==
    op = "padded_page_range" =>
        LET r == ret.val
        IN  /\ \A i, j \in 1..Len(r) :
                  (i < j /\ IsNumber(r[i]) /\ IsNumber(r[j])) => r[i] < r[j]
            /\ \A i \in 1..Len(r) :
                  ~IsNumber(r[i]) =>
                      /\ i > 1 /\ i < Len(r)
                      /\ IsNumber(r[i - 1]) /\ IsNumber(r[i + 1])
                      /\ r[i + 1] > r[i - 1] + 1

HasPageParam(url) == \E i \in 1..Len(url) : url[i].k = page_arg

\* C7: when the route resolves without a page argument but not with the page
\* number as a route parameter, construction succeeds in query-string mode;
\* get_url(n), n != 1, is the base URL followed by a query string whose page
\* parameter is n, and get_url(1) is the base URL with no page parameter.
C7_QueryStringMode ==
    (route_base /\ ~route_kwarg) =>
        /\ op = "construct" =>
              /\ ret.exc = "none"
              /\ generator.constructed
              /\ generator.get_url = "get_url_by_querydict"
        /\ op = "get_url" =>
              /\ ret.exc = "none"
              /\ SubSeq(ret.val, 1, 1) = <<Tok("/list/", 0)>>
              /\ IF arg.number # 1
                 THEN /\ Len(ret.val) >= 3
                      /\ ret.val[2] = Tok("?", 0)
                      /\ \E i \in 3..Len(ret.val) :
                            ret.val[i] = Tok(page_arg, arg.number)
                      /\ \A i \in 1..Len(ret.val) :
                            ret.val[i].k = page_arg => ret.val[i].v = arg.number
                 ELSE ~HasPageParam(ret.val)

\* C8: range_urls(r) completes without error and returns a list as long as r
\* whose i-th entry is (r[i], get_url(r[i])) for a page number and
\* (None, None) for a gap marker.
C8_RangeUrls ==
    op = "range_urls" =>
        /\ ret.exc = "none"
        /\ Len(ret.val) = Len(arg.range)
        /\ \A i \in 1..Len(arg.range) :
              IF arg.range[i] = None
              THEN ret.val[i] = UrlPair(None, NoURL)
              ELSE /\ get_url(generator, arg.range[i]).exc = "none"
                   /\ ret.val[i] =
                         UrlPair(arg.range[i], get_url(generator, arg.range[i]).val)

RECURSIVE ConcatPages(_)
ConcatPages(n) ==
    IF n = 0 THEN <<>> ELSE ConcatPages(n - 1) \o new_page(n).object_list

ClampApplies(n) == (n - 1) * per_page + per_page + orphans >= Len(object_list)

\* C9: with count >= 1 the slices of page(1) .. page(num_pages) concatenated
\* equal the collection; the orphan clamp applies on page num_pages and on no
\* earlier page, every page before the last holds exactly per_page items,
\* and when num_pages > 1 the last page holds more than orphans items.
C9_Partition ==
    (Len(object_list) >= 1 /\ num_pages_cached) =>
        /\ ConcatPages(num_pages) = object_list
        /\ ClampApplies(num_pages)
        /\ \A n \in 1..(num_pages - 1) :
              /\ ~ClampApplies(n)
              /\ Len(new_page(n).object_list) = per_page
        /\ num_pages > 1 => Len(new_page(num_pages).object_list) > orphans
        /\ (op = "page" /\ ret.exc = "none") =>
              /\ page.number < num_pages => Len(page.object_list) = per_page
              /\ (page.number = num_pages /\ num_pages > 1) =>
                    Len(page.object_list) > orphans

\* a last page that absorbed orphans
C9_Witness ==
    /\ op = "page"
    /\ ret.exc = "none"
    /\ num_pages > 1
    /\ page.number = num_pages
    /\ Len(page.object_list) > per_page
    /\ orphans > 0

\* C10: once count (num_pages) has been computed, every later access returns
\* that first value, the cached fields never change and the collection's
\* size is never queried again, even if the collection has changed size and
\* even if the cached count is 0.
C10_ComputedOnce ==
    [][ /\ _count # None =>
              /\ _count' = _count
              /\ sizeQueries' = sizeQueries
              /\ op' = "count" => ret' = Ok(_count)
        /\ _num_pages # None =>
              /\ _num_pages' = _num_pages
              /\ op' = "num_pages" => ret' = Ok(_num_pages)
              /\ op' = "page_range" => ret' = Ok(Range(1, _num_pages))
        /\ sizeQueries' <= 1 ]_vars

\* count was computed as 0, the collection grew, count still answers 0
C10_Witness ==
    /\ op = "count"
    /\ ret = Ok(0)
    /\ _count = 0
    /\ sizeQueries = 1
    /\ Len(object_list) > 0

====
